---- MODULE Spec2Model ----
(***************************************************************************)
(* Conversation controller of the Gemini chat client (App in src/types.ts) *)
(* and the service functions it calls (src/unnamed/part_000).              *)
(*                                                                         *)
(* Execution is single-threaded and event-driven.  One action of the model *)
(* is one run-to-suspension slice of a handler: a whole synchronous        *)
(* handler, or the part of handleSendMessage between two awaits.  React    *)
(* state is taken to be re-rendered between two slices, so a handler reads *)
(* the state left by the previous slice.  Values a running                 *)
(* handleSendMessage captured in its closure live in its send record.      *)
(*                                                                         *)
(* Texts are sequences of tokens, so that concatenation and trimming are   *)
(* computed and not assumed.                                               *)
(***************************************************************************)
EXTENDS Integers, Sequences, FiniteSets, TLC

VARIABLES
    messages,        \* useState<Message[]>      (types.ts:41)
    inputValue,      \* useState('')             (types.ts:49)
    isLoading,       \* useState(false)          (types.ts:50)
    selectedModel,   \* useState(GeminiModel)    (types.ts:51)
    selectedImage,   \* useState<File | null>    (types.ts:52)
    imagePreview,    \* useState<string | null>  (types.ts:53)
    chatSessionRef,  \* useRef<Chat | null>      (types.ts:56)
    nextSession,     \* number of Chat objects ai.chats.create has returned
    sends,           \* the invocations of handleSendMessage that passed line 120
    lastEvent        \* how the last handler slice ended: "update" when it
                     \* updated state, "alert" (types.ts:102) or
                     \* "submitRejected" (types.ts:120) when it returned early

vars == <<messages, inputValue, isLoading, selectedModel, selectedImage,
          imagePreview, chatSessionRef, nextSession, sends, lastEvent>>

-----------------------------------------------------------------------------
(* Bounds of the model *)

MaxSends == 2
MaxFragments == 2
MaxSessions == 2

-----------------------------------------------------------------------------
(* Values *)

USER == "user"
MODEL == "model"

FLASH == "gemini-3-flash-preview"
PRO == "gemini-3-pro-preview"

GeminiModel == {FLASH, PRO}

NoFile == [type |-> <<>>, data |-> <<>>]
NoPreview == [blob |-> NoFile]
NoSession == [id |-> 0, model |-> "null"]
Undefined == <<"undefined">>

\* The files the picker can deliver: an image and a file that is no image.
PngFile == [type |-> <<"image/", "png">>, data |-> <<"QUJD">>]
TextFile == [type |-> <<"text/", "plain">>, data |-> <<"dHh0">>]
Files == {PngFile, TextFile}

\* What the user can have in the textarea: nothing, white space, text.
SP == " "
Inputs == {<<>>, <<SP>>, <<"a">>}

\* The texts a provider chunk can carry.
Fragments == {<<"x">>, <<"y">>}

WelcomeText == <<"Hi there! I'm your Gemini 3.0 powered assistant.">>
CleanSlateText == <<"Clean slate! Ready when you are.">>
ErrorText == <<"Sorry, something went wrong. Please check your connection or API key.">>
ImagePrompt == <<"What is in this image?">>
HelloPrompt == <<"Hello">>
DefaultMimeType == <<"image/", "jpeg">>

-----------------------------------------------------------------------------
(* Pure helpers *)

\* String.prototype.trim on a token sequence: white space is dropped at
\* both ends.
RECURSIVE TrimStart(_)
TrimStart(t) ==
    IF t # <<>> /\ Head(t) = SP THEN TrimStart(Tail(t)) ELSE t

RECURSIVE TrimEnd(_)
TrimEnd(t) ==
    IF t # <<>> /\ t[Len(t)] = SP THEN TrimEnd(SubSeq(t, 1, Len(t) - 1)) ELSE t

Trim(t) == TrimEnd(TrimStart(t))

\* Mutant of Truthy: only undefined is falsy, the empty string is not.
TruthyDefined(t) == t # Undefined

\* JavaScript truthiness of a string value or undefined.
Truthy(t) == t # <<>> /\ t # Undefined

\* FileReader.readAsDataURL: "data:<type>;base64,<payload>".
ReadAsDataURL(file) == <<"data:">> \o file.type \o <<";base64", ",">> \o file.data

\* String.prototype.split(','): the pieces between the commas.
RECURSIVE SplitComma(_)
SplitComma(t) ==
    IF \A i \in 1..Len(t) : t[i] # ","
    THEN <<t>>
    ELSE LET i == CHOOSE j \in 1..Len(t) :
                      t[j] = "," /\ \A k \in 1..(j - 1) : t[k] # ","
         IN  <<SubSeq(t, 1, i - 1)>> \o SplitComma(SubSeq(t, i + 1, Len(t)))

\* The value fileToGenerativePart resolves with: element [1] of the split
\* data URL (the second piece), undefined when there is none.
FileToGenerativePart(file) ==
    LET pieces == SplitComma(ReadAsDataURL(file))
    IN  IF Len(pieces) >= 2 THEN pieces[2] ELSE Undefined

\* createChatSession: the n-th Chat object made, for the given model.
CreateChatSession(model, n) == [id |-> n, model |-> model]

\* crypto.randomUUID(): an id no other call returns.  site names the call
\* in the source and n counts the calls made at that site.
RandomUUID(site, n) == <<site, n>>

WelcomeId == <<"welcome", 0>>
NoId == <<"none", 0>>

NewMessage(id, role, text, image) ==
    [id |-> id, role |-> role, text |-> text, image |-> image, isError |-> FALSE]

WelcomeMessage == NewMessage(WelcomeId, MODEL, WelcomeText, NoPreview)

\* The payload sendMessageStream hands to chat.sendMessageStream.
NoRequest == [kind |-> "none"]

StreamRequest(message, imageBase64, mimeType) ==
    IF Truthy(imageBase64)
    THEN [kind |-> "parts", role |-> USER, text |-> message,
          mimeType |-> mimeType, data |-> imageBase64]
    ELSE [kind |-> "text", text |-> message]

\* The text argument handleSendMessage passes to sendMessageStream.
PromptFor(currentText, currentImage) ==
    IF Truthy(currentText) THEN currentText
    ELSE IF currentImage # NoFile THEN ImagePrompt ELSE HelloPrompt

\* The mimeType argument: currentImage?.type, and the parameter's default
\* when that is undefined.
MimeTypeFor(currentImage) ==
    IF currentImage # NoFile THEN currentImage.type ELSE DefaultMimeType

\* Mutant of ReplaceText: the update goes to the last message of the list,
\* whatever its id.
ReplaceTextOfLast(prev, id, text) ==
    [j \in 1..Len(prev) |->
        IF j = Len(prev) THEN [prev[j] EXCEPT !.text = text] ELSE prev[j]]

\* prev.map(msg => msg.id === id ? {...msg, text} : msg)
ReplaceText(prev, id, text) ==
    [j \in 1..Len(prev) |->
        IF prev[j].id = id THEN [prev[j] EXCEPT !.text = text] ELSE prev[j]]

\* Mutant of MarkError: the error text is appended to the partial text.
MarkErrorKeepsPartial(prev, id) ==
    [j \in 1..Len(prev) |->
        IF prev[j].id = id
        THEN [prev[j] EXCEPT !.text = @ \o ErrorText, !.isError = TRUE]
        ELSE prev[j]]

\* Mutant of MarkError: the placeholder of the failed send is removed.
MarkErrorDrops(prev, id) ==
    LET Keep(m) == m.id # id
    IN  SelectSeq(prev, Keep)

\* Mutant of MarkError: the error text is written without the error flag.
MarkErrorUnflagged(prev, id) == ReplaceText(prev, id, ErrorText)

\* prev.map(msg => msg.id === id ? {...msg, text: <error>, isError: true} : msg)
MarkError(prev, id) ==
    [j \in 1..Len(prev) |->
        IF prev[j].id = id
        THEN [prev[j] EXCEPT !.text = ErrorText, !.isError = TRUE]
        ELSE prev[j]]


-----------------------------------------------------------------------------
(* The state after the component has mounted: the mount effect has run     *)
(* startNewChat once, for the initial model.                               *)

Init ==
    /\ messages = <<WelcomeMessage>>
    /\ inputValue = <<>>
    /\ isLoading = FALSE
    /\ selectedModel = FLASH
    /\ selectedImage = NoFile
    /\ imagePreview = NoPreview
    /\ chatSessionRef = CreateChatSession(FLASH, 1)
    /\ nextSession = 1
    /\ sends = <<>>
    /\ lastEvent = "update"

-----------------------------------------------------------------------------
(* Input area *)

\* textarea onChange
SetInputValue(v) ==
    /\ v # inputValue
    /\ inputValue' = v
    /\ lastEvent' = "update"
    /\ UNCHANGED <<messages, isLoading, selectedModel, selectedImage,
                   imagePreview, chatSessionRef, nextSession, sends>>

\* file.type.startsWith('image/')
IsImageType(type) == type # <<>> /\ Head(type) = "image/"

\* Mutant of HandleFileSelect: a rejected file also drops the attachment.
HandleFileSelectClears(file) ==
    /\ IF IsImageType(file.type)
       THEN /\ selectedImage' = file
            /\ imagePreview' = [blob |-> file]
            /\ lastEvent' = "update"
       ELSE /\ selectedImage' = NoFile
            /\ imagePreview' = NoPreview
            /\ lastEvent' = "alert"
    /\ UNCHANGED <<messages, inputValue, isLoading, selectedModel,
                   chatSessionRef, nextSession, sends>>

\* The change event of the file input, for a picked file (the picker
\* delivers no event without one).
HandleFileSelect(file) ==
    /\ IF IsImageType(file.type)
       THEN /\ selectedImage' = file
            /\ imagePreview' = [blob |-> file]
            /\ lastEvent' = "update"
       ELSE /\ UNCHANGED <<selectedImage, imagePreview>>
            /\ lastEvent' = "alert"
    /\ UNCHANGED <<messages, inputValue, isLoading, selectedModel,
                   chatSessionRef, nextSession, sends>>

\* The X button of the preview, shown only while there is a preview.
ClearImage ==
    /\ imagePreview # NoPreview
    /\ selectedImage' = NoFile
    /\ imagePreview' = NoPreview
    /\ lastEvent' = "update"
    /\ UNCHANGED <<messages, inputValue, isLoading, selectedModel,
                   chatSessionRef, nextSession, sends>>

-----------------------------------------------------------------------------
(* Session manager *)

\* Mutant of StartNewChat: the effect runs a startNewChat that closed over
\* the model of the previous render.
StartNewChatStale(model) ==
    /\ chatSessionRef' = CreateChatSession(selectedModel, nextSession + 1)
    /\ nextSession' = nextSession + 1

\* startNewChat as the effect on [selectedModel] runs it.
StartNewChat(model) ==
    /\ chatSessionRef' = CreateChatSession(model, nextSession + 1)
    /\ nextSession' = nextSession + 1

\* Mutant of SetSelectedModel: the switch also resets the visible history.
SetSelectedModelResets(m) ==
    /\ m # selectedModel => nextSession < MaxSessions
    /\ selectedModel' = m
    /\ IF m # selectedModel
       THEN /\ StartNewChat(m)
            /\ messages' = <<WelcomeMessage>>
       ELSE UNCHANGED <<chatSessionRef, nextSession, messages>>
    /\ lastEvent' = "update"
    /\ UNCHANGED <<inputValue, isLoading, selectedImage, imagePreview, sends>>

\* The Flash and Pro buttons: setSelectedModel(m), and the effect that
\* follows the render when the value has changed.
SetSelectedModel(m) ==
    /\ m # selectedModel => nextSession < MaxSessions
    /\ selectedModel' = m
    /\ IF m # selectedModel
       THEN StartNewChat(m)
       ELSE UNCHANGED <<chatSessionRef, nextSession>>
    /\ lastEvent' = "update"
    /\ UNCHANGED <<messages, inputValue, isLoading, selectedImage,
                   imagePreview, sends>>

\* Mutant of HandleClearChat: the greeting is appended to the history.
HandleClearChatAppends ==
    /\ nextSession < MaxSessions
    /\ messages' = Append(messages,
                          NewMessage(RandomUUID("clear", nextSession + 1),
                                     MODEL, CleanSlateText, NoPreview))
    /\ chatSessionRef' = CreateChatSession(selectedModel, nextSession + 1)
    /\ nextSession' = nextSession + 1
    /\ lastEvent' = "update"
    /\ UNCHANGED <<inputValue, isLoading, selectedModel, selectedImage,
                   imagePreview, sends>>

HandleClearChat ==
    /\ nextSession < MaxSessions
    /\ messages' = <<NewMessage(RandomUUID("clear", nextSession + 1), MODEL,
                                CleanSlateText, NoPreview)>>
    /\ chatSessionRef' = CreateChatSession(selectedModel, nextSession + 1)
    /\ nextSession' = nextSession + 1
    /\ lastEvent' = "update"
    /\ UNCHANGED <<inputValue, isLoading, selectedModel, selectedImage,
                   imagePreview, sends>>

-----------------------------------------------------------------------------
(* handleSendMessage *)

\* Mutant of SubmitRejected: the text is tested without trim().
SubmitRejectedUntrimmed(text, image, loading) ==
    (~Truthy(text) /\ image = NoFile) \/ loading

\* The early return of line 120.
SubmitRejected(text, image, loading) ==
    (~Truthy(Trim(text)) /\ image = NoFile) \/ loading

\* The record of an invocation that has returned.  A record holds the
\* locals the rest of the invocation can still read; the others are reset.
Returned ==
    [pc |-> "aborted",
     userMessageId |-> NoId,
     modelMessageId |-> NoId,
     currentText |-> <<>>,
     currentImage |-> NoFile,
     currentPreview |-> NoPreview,
     closureModel |-> "released",
     imageBase64 |-> Undefined,
     chat |-> NoSession,
     request |-> NoRequest,
     fullResponse |-> <<>>,
     yielded |-> <<>>]

\* The locals of one invocation, as they are after line 125.
NewSend(i) ==
    [pc |-> "encoding",
     userMessageId |-> RandomUUID("user", i),
     modelMessageId |-> NoId,
     currentText |-> inputValue,
     currentImage |-> selectedImage,
     currentPreview |-> imagePreview,
     closureModel |-> selectedModel,
     imageBase64 |-> Undefined,
     chat |-> NoSession,
     request |-> NoRequest,
     fullResponse |-> <<>>,
     yielded |-> <<>>]

\* Mutant of AppendSubmission: the placeholder is appended first.
AppendSubmissionSwapped(prev, userMessage, placeholder) ==
    Append(Append(prev, placeholder), userMessage)

\* The two functional setMessages updates of lines 147 and 154.
AppendSubmission(prev, userMessage, placeholder) ==
    Append(Append(prev, userMessage), placeholder)

\* Mutant of Accumulate: the chunk replaces the text received so far.
AccumulateReplaces(fullResponse, chunk) == chunk

\* fullResponse += chunk
Accumulate(fullResponse, chunk) == fullResponse \o chunk

\* Lines 138-182, up to the first suspension of the for-await: the slice
\* that runs when encoding has resolved with base64, or right after line
\* 125 when there is no image.  r holds the locals of invocation i.
Resume(i, r, base64) ==
    LET userMessage == NewMessage(r.userMessageId, USER, r.currentText,
                                  r.currentPreview)
        modelMessageId == RandomUUID("model", i)
        placeholder == NewMessage(modelMessageId, MODEL, <<>>, NoPreview)
        chat == IF chatSessionRef = NoSession
                THEN CreateChatSession(r.closureModel, nextSession + 1)
                ELSE chatSessionRef
        opened == [Returned EXCEPT
                     !.pc = "streaming",
                     !.modelMessageId = modelMessageId,
                     !.chat = chat,
                     !.request = StreamRequest(
                                     PromptFor(r.currentText, r.currentImage),
                                     base64, MimeTypeFor(r.currentImage))]
    IN  /\ messages' = AppendSubmission(messages, userMessage, placeholder)
        /\ inputValue' = <<>>
        /\ selectedImage' = NoFile
        /\ imagePreview' = NoPreview
        /\ isLoading' = TRUE
        /\ chatSessionRef' = chat
        /\ nextSession' = IF chatSessionRef = NoSession
                          THEN nextSession + 1 ELSE nextSession
        /\ sends' = [k \in 1..(IF i > Len(sends) THEN i ELSE Len(sends)) |->
                        IF k = i THEN opened ELSE sends[k]]
        /\ lastEvent' = "update"
        /\ UNCHANGED selectedModel

\* The send button and the Enter key: lines 119-131, up to the await of
\* fileToGenerativePart when an image is attached, and through Resume when
\* none is.
HandleSendMessage ==
    IF SubmitRejected(inputValue, selectedImage, isLoading)
    THEN /\ lastEvent' = "submitRejected"
         /\ UNCHANGED <<messages, inputValue, isLoading, selectedModel,
                        selectedImage, imagePreview, chatSessionRef,
                        nextSession, sends>>
    ELSE /\ Len(sends) < MaxSends
         /\ LET i == Len(sends) + 1
            IN  IF selectedImage # NoFile
                THEN /\ sends' = Append(sends, NewSend(i))
                     /\ lastEvent' = "update"
                     /\ UNCHANGED <<messages, inputValue, isLoading,
                                    selectedModel, selectedImage, imagePreview,
                                    chatSessionRef, nextSession>>
                ELSE Resume(i, NewSend(i), Undefined)

\* reader.onloadend: the promise of fileToGenerativePart resolves.
EncodeDone(i) ==
    /\ sends[i].pc = "encoding"
    /\ Resume(i, sends[i], FileToGenerativePart(sends[i].currentImage))

\* Mutant of EncodeFail: the user's message was appended before the
\* encoding was awaited.
EncodeFailAfterAppend(i) ==
    /\ sends[i].pc = "encoding"
    /\ sends' = [sends EXCEPT ![i] = Returned]
    /\ messages' = Append(messages,
                          NewMessage(sends[i].userMessageId, USER,
                                     sends[i].currentText,
                                     sends[i].currentPreview))
    /\ lastEvent' = "update"
    /\ UNCHANGED <<inputValue, isLoading, selectedModel, selectedImage,
                   imagePreview, chatSessionRef, nextSession>>

\* reader.onerror: the promise rejects, line 134 returns.
EncodeFail(i) ==
    /\ sends[i].pc = "encoding"
    /\ sends' = [sends EXCEPT ![i] = Returned]
    /\ lastEvent' = "update"
    /\ UNCHANGED <<messages, inputValue, isLoading, selectedModel,
                   selectedImage, imagePreview, chatSessionRef, nextSession>>

\* Mutant of StreamChunk: the stream follows chatSessionRef.current instead
\* of the handle it was opened on.
StreamChunkRebinds(i, c) ==
    /\ sends[i].pc = "streaming"
    /\ IF Truthy(c)
       THEN /\ Len(sends[i].yielded) < MaxFragments
            /\ LET total == Accumulate(sends[i].fullResponse, c)
               IN  /\ sends' = [sends EXCEPT
                                  ![i].fullResponse = total,
                                  ![i].yielded = Append(@, c),
                                  ![i].chat = chatSessionRef]
                   /\ messages' = ReplaceText(messages,
                                              sends[i].modelMessageId, total)
            /\ lastEvent' = "update"
       ELSE UNCHANGED <<sends, messages, lastEvent>>
    /\ UNCHANGED <<inputValue, isLoading, selectedModel, selectedImage,
                   imagePreview, chatSessionRef, nextSession>>

\* The provider delivers a chunk whose text is c (empty for a chunk with no
\* text).  sendMessageStream yields it when it is truthy (part_000:82), and
\* the body of the for-await then runs (types.ts:183-190).
StreamChunk(i, c) ==
    /\ sends[i].pc = "streaming"
    /\ IF Truthy(c)
       THEN /\ Len(sends[i].yielded) < MaxFragments
            /\ LET total == Accumulate(sends[i].fullResponse, c)
               IN  /\ sends' = [sends EXCEPT
                                  ![i].fullResponse = total,
                                  ![i].yielded = Append(@, c)]
                   /\ messages' = ReplaceText(messages,
                                              sends[i].modelMessageId, total)
            /\ lastEvent' = "update"
       ELSE UNCHANGED <<sends, messages, lastEvent>>
    /\ UNCHANGED <<inputValue, isLoading, selectedModel, selectedImage,
                   imagePreview, chatSessionRef, nextSession>>

\* The provider stream ends: the generator returns, the for-await ends and
\* the finally block runs.
StreamEnd(i) ==
    /\ sends[i].pc = "streaming"
    /\ sends' = [sends EXCEPT ![i] = [Returned EXCEPT !.pc = "done"]]
    /\ isLoading' = FALSE
    /\ lastEvent' = "update"
    /\ UNCHANGED <<messages, inputValue, selectedModel, selectedImage,
                   imagePreview, chatSessionRef, nextSession>>

\* The request or the provider stream fails: sendMessageStream rethrows
\* (part_000:86-89), the catch block and the finally block run.
StreamThrow(i) ==
    /\ sends[i].pc = "streaming"
    /\ sends' = [sends EXCEPT ![i] = [Returned EXCEPT !.pc = "failed"]]
    /\ messages' = MarkError(messages, sends[i].modelMessageId)
    /\ isLoading' = FALSE
    /\ lastEvent' = "update"
    /\ UNCHANGED <<inputValue, selectedModel, selectedImage, imagePreview,
                   chatSessionRef, nextSession>>

-----------------------------------------------------------------------------

Next ==
    \/ \E v \in Inputs : SetInputValue(v)
    \/ \E f \in Files : HandleFileSelect(f)
    \/ ClearImage
    \/ \E m \in GeminiModel : SetSelectedModel(m)
    \/ HandleClearChat
    \/ HandleSendMessage
    \/ \E i \in 1..Len(sends) : EncodeDone(i)
    \/ \E i \in 1..Len(sends) : EncodeFail(i)
    \/ \E i \in 1..Len(sends) : \E c \in Fragments \cup {<<>>} : StreamChunk(i, c)
    \/ \E i \in 1..Len(sends) : StreamEnd(i)
    \/ \E i \in 1..Len(sends) : StreamThrow(i)

Spec == Init /\ [][Next]_vars

-----------------------------------------------------------------------------
(* The payload of a request, for every file the picker can deliver: the    *)
(* same handlers, with a file of type image/png and no content among the   *)
(* files, and one submission followed at a time.                           *)

MaxPayloadSends == 1

\* An image file of zero bytes: its data URL has nothing after the comma.
EmptyPngFile == [type |-> <<"image/", "png">>, data |-> <<>>]

PayloadFiles == Files \cup {EmptyPngFile}

NextPayload ==
    \/ \E v \in Inputs : SetInputValue(v)
    \/ \E f \in PayloadFiles : HandleFileSelect(f)
    \/ ClearImage
    \/ \E m \in GeminiModel : SetSelectedModel(m)
    \/ HandleClearChat
    \/ /\ Len(sends) < MaxPayloadSends
       /\ HandleSendMessage
    \/ \E i \in 1..Len(sends) : EncodeDone(i)
    \/ \E i \in 1..Len(sends) : EncodeFail(i)
    \/ \E i \in 1..Len(sends) : StreamEnd(i)
    \/ \E i \in 1..Len(sends) : StreamThrow(i)

SpecPayload == Init /\ [][NextPayload]_vars

-----------------------------------------------------------------------------
(* Vocabulary of the properties *)

SendIds == 1..Len(sends)

\* Invocation i is between line 120 and its return.
Active(i) == sends[i].pc \in {"encoding", "streaming"}

Streaming(i) == sends[i].pc = "streaming"

\* F1 + ... + Fn for a sequence of fragments.
RECURSIVE Flatten(_)
Flatten(fs) == IF fs = <<>> THEN <<>> ELSE Head(fs) \o Flatten(Tail(fs))

\* The positions of the message with the given id.
Positions(msgs, id) == {j \in 1..Len(msgs) : msgs[j].id = id}

\* The placeholder of stream i is no longer in the list: a clear has run
\* since it was appended.
Stale(i) == Streaming(i) /\ Positions(messages, sends[i].modelMessageId) = {}

\* This step is the slice of invocation i that opens its stream.
Opens(i) ==
    /\ i \in 1..Len(sends')
    /\ sends'[i].pc = "streaming"
    /\ i \in SendIds => sends[i].pc = "encoding"

-----------------------------------------------------------------------------
(* C1: two sends never overlap -- at most one accepted submission is       *)
(* between its acceptance at line 120 and its return, for every            *)
(* interleaving, a submit during image encoding included.                  *)
C1_SendsNeverOverlap ==
    Cardinality({i \in SendIds : Active(i)}) <= 1

(* C2: while a stream that has not failed runs, its placeholder (when      *)
(* still in the list) holds the concatenation of the fragments yielded so  *)
(* far, in arrival order, with no error flag; and when the stream ends the *)
(* placeholder holds the concatenation of all of them.                     *)
C2_TextIsConcatenation ==
    /\ [](\A i \in SendIds : Streaming(i) =>
            \A j \in Positions(messages, sends[i].modelMessageId) :
                /\ messages[j].text = Flatten(sends[i].yielded)
                /\ ~messages[j].isError)
    /\ [][\A i \in SendIds : StreamEnd(i) =>
            \A j \in Positions(messages', sends[i].modelMessageId) :
                /\ messages'[j].text = Flatten(sends[i].yielded)
                /\ ~messages'[j].isError]_vars

C2_Witness ==
    \E i \in SendIds :
        /\ sends[i].pc = "done"
        /\ \E j \in 1..Len(messages) :
              /\ messages[j].id = RandomUUID("model", i)
              /\ messages[j].text = <<"x", "y">>
              /\ ~messages[j].isError

(* C3: when a stream throws, after any number of fragments, its            *)
(* placeholder (when still in the list) gets exactly the fixed error text  *)
(* and isError = true, and the loading flag is cleared.                    *)
C3_ThrowLeavesErrorBubble ==
    [][\A i \in SendIds : StreamThrow(i) =>
          /\ isLoading' = FALSE
          /\ \A j \in Positions(messages, sends[i].modelMessageId) :
                /\ messages'[j].id = sends[i].modelMessageId
                /\ messages'[j].text = ErrorText
                /\ messages'[j].isError]_vars

C3_Witness ==
    \E i \in SendIds :
        /\ sends[i].pc = "failed"
        /\ ~isLoading
        /\ \E j \in 1..Len(messages) :
              /\ messages[j].id = RandomUUID("model", i)
              /\ messages[j].text = ErrorText
              /\ messages[j].isError

(* C4: a submit with empty trimmed text and no image changes nothing: the  *)
(* message list, the input, the attached image, the loading flag and the   *)
(* session are as before and no invocation (hence no request) is started.  *)
C4_EmptySubmitChangesNothing ==
    [][(~Truthy(Trim(inputValue)) /\ selectedImage = NoFile /\ HandleSendMessage)
         => UNCHANGED <<messages, inputValue, selectedImage, imagePreview,
                        isLoading, selectedModel, chatSessionRef, nextSession,
                        sends>>]_vars

C4_Witness ==
    /\ lastEvent = "submitRejected"
    /\ inputValue = <<SP>>
    /\ selectedImage = NoFile
    /\ ~isLoading

(* C5: right after handleClearChat, whatever the list held, the list is    *)
(* exactly the reset greeting (role model, no error flag) and the session  *)
(* handle is one that did not exist before.                                *)
C5_ClearLeavesOneGreeting ==
    [][HandleClearChat =>
          /\ Len(messages') = 1
          /\ messages'[1].role = MODEL
          /\ messages'[1].text = CleanSlateText
          /\ ~messages'[1].isError
          /\ chatSessionRef'.id > nextSession
          /\ chatSessionRef' # chatSessionRef
          /\ \A i \in SendIds : chatSessionRef' # sends[i].chat]_vars

C5_Witness ==
    /\ Len(messages) = 1
    /\ messages[1].text = CleanSlateText
    /\ messages[1].id # WelcomeId
    /\ chatSessionRef.id = 2
    /\ \E i \in SendIds : sends[i].pc \in {"done", "failed"}

(* C6: the slice that opens the stream of an accepted submission appends   *)
(* the user's message and then an empty placeholder as the last two        *)
(* entries and sets the loading flag, and no fragment has been consumed    *)
(* yet; a fragment is only ever consumed by a stream whose placeholder has *)
(* been appended.                                                          *)
C6_AppendBeforeStreaming ==
    [][/\ \A i \in 1..MaxSends : Opens(i) =>
             LET n == Len(messages)
             IN  /\ Len(messages') = n + 2
                 /\ SubSeq(messages', 1, n) = messages
                 /\ messages'[n + 1].role = USER
                 /\ messages'[n + 1].id = RandomUUID("user", i)
                 /\ messages'[n + 1].text =
                        (IF i \in SendIds THEN sends[i].currentText
                                          ELSE inputValue)
                 /\ messages'[n + 2].role = MODEL
                 /\ messages'[n + 2].id = sends'[i].modelMessageId
                 /\ messages'[n + 2].text = <<>>
                 /\ ~messages'[n + 2].isError
                 /\ sends'[i].yielded = <<>>
                 /\ isLoading'
       /\ \A i \in SendIds : sends'[i].yielded # sends[i].yielded =>
             /\ sends[i].pc = "streaming"
             /\ sends[i].modelMessageId = RandomUUID("model", i)]_vars

C6_Witness ==
    \E i \in SendIds :
        /\ Streaming(i)
        /\ sends[i].yielded = <<>>
        /\ isLoading
        /\ Len(messages) >= 3
        /\ messages[Len(messages) - 1].role = USER
        /\ messages[Len(messages) - 1].text = <<"a">>
        /\ messages[Len(messages)].id = sends[i].modelMessageId
        /\ messages[Len(messages)].text = <<>>

(* C7: the loading flag set for an accepted submission is not cleared      *)
(* before the stream of that submission has ended or thrown: a step that   *)
(* clears the flag leaves no stream running.                               *)
C7_LoadingHeldUntilStreamOver ==
    [][(isLoading /\ ~isLoading') =>
          \A i \in SendIds : sends'[i].pc # "streaming"]_vars

(* C8: once a clear has dropped the placeholder of a running stream, every *)
(* later fragment, end or failure of that stream leaves the message list   *)
(* as it is.                                                               *)
C8_StaleStreamIsInert ==
    [][\A i \in SendIds : Stale(i) =>
          /\ (\E c \in Fragments \cup {<<>>} : StreamChunk(i, c)) =>
                messages' = messages
          /\ StreamThrow(i) => messages' = messages
          /\ StreamEnd(i) => messages' = messages]_vars

C8_Witness ==
    \E i \in SendIds :
        /\ Stale(i)
        /\ Len(sends[i].yielded) = MaxFragments
        /\ Len(messages) = 1
        /\ messages[1].text = CleanSlateText

(* C9: choosing another model replaces the session handle by a new one     *)
(* made for that model and leaves the message list as it is, also while a  *)
(* send is in flight.                                                      *)
C9_ModelSwitchKeepsMessages ==
    [][\A m \in GeminiModel : (m # selectedModel /\ SetSelectedModel(m)) =>
          /\ chatSessionRef'.model = m
          /\ chatSessionRef'.id > nextSession
          /\ messages' = messages]_vars

C9_Witness ==
    /\ selectedModel = PRO
    /\ chatSessionRef = CreateChatSession(PRO, 2)
    /\ \E i \in SendIds :
          /\ Streaming(i)
          /\ sends[i].chat = CreateChatSession(FLASH, 1)
          /\ sends[i].yielded # <<>>
          /\ Positions(messages, sends[i].modelMessageId) # {}

(* C10, as the spec states it: while a stream is active no model-variant   *)
(* change replaces the session handle.                                     *)
C10_NoSwitchDuringStream ==
    [][\A m \in GeminiModel :
          ((\E i \in SendIds : Streaming(i)) /\ SetSelectedModel(m)) =>
              chatSessionRef' = chatSessionRef]_vars

(* C10, amended: the handle a stream was opened on is read-only for that   *)
(* stream -- a model switch or a clear during the send replaces            *)
(* chatSessionRef, and the running stream keeps its handle until it        *)
(* returns.                                                                *)
C10_StreamKeepsItsHandle ==
    [][\A i \in SendIds : (Streaming(i) /\ sends'[i].pc = "streaming") =>
          /\ sends'[i].chat = sends[i].chat
          /\ sends'[i].chat # NoSession]_vars

C10_Witness ==
    \E i \in SendIds :
        /\ Streaming(i)
        /\ sends[i].chat # chatSessionRef
        /\ sends[i].chat.model # selectedModel
        /\ sends[i].yielded # <<>>

(* C11: when the encoding of the attached image fails the submission ends  *)
(* there: the message list, the loading flag, the input text and the       *)
(* attached image are as before, the invocation returns without a request, *)
(* and the controller is idle unless another invocation is running.        *)
C11_EncodeFailureAborts ==
    [][\A i \in SendIds : EncodeFail(i) =>
          /\ UNCHANGED <<messages, isLoading, inputValue, selectedImage,
                         imagePreview>>
          /\ sends'[i].pc = "aborted"
          /\ sends'[i].request = NoRequest
          /\ sends'[i].chat = NoSession
          /\ (\A k \in SendIds \ {i} : ~Active(k)) => ~isLoading']_vars

C11_Witness ==
    \E i \in SendIds :
        /\ sends[i].pc = "aborted"
        /\ messages = <<WelcomeMessage>>
        /\ inputValue = <<"a">>
        /\ selectedImage = PngFile
        /\ ~isLoading

\* The list was cleared after the stream of invocation i was opened: its
\* first message is the greeting of a clear whose session is younger than
\* the handle the stream runs on.
ClearedSince(i) ==
    /\ messages[1].id[1] = "clear"
    /\ messages[1].id[2] > sends[i].chat.id

ErrorBubbles(msgs) == {j \in 1..Len(msgs) : msgs[j].isError}

(* C12 as stated: every failure of a submission, of its encoding or of its *)
(* stream, leaves a message flagged isError in the list, unless the stream *)
(* was made stale by a clear.                                              *)
C12_EveryFailureLeavesBubble ==
    [][\A i \in SendIds :
          ((EncodeFail(i) \/ StreamThrow(i)) /\ ~Stale(i))
              => ErrorBubbles(messages') # {}]_vars

(* C12, amended: a failure of the stream of a submission flags that        *)
(* submission's own placeholder as an error bubble unless the list was     *)
(* cleared after the stream was opened; a failure of the encoding adds no  *)
(* error bubble at all.                                                    *)
C12_StreamFailureLeavesBubble ==
    [][\A i \in SendIds :
          /\ (StreamThrow(i) /\ ~ClearedSince(i)) =>
                \E j \in ErrorBubbles(messages') :
                    messages'[j].id = sends[i].modelMessageId
          /\ EncodeFail(i) =>
                ErrorBubbles(messages') = ErrorBubbles(messages)]_vars

C12_Witness ==
    \E i, k \in SendIds :
        /\ sends[i].pc = "aborted"
        /\ sends[k].pc = "failed"
        /\ ErrorBubbles(messages) = {Len(messages)}
        /\ messages[Len(messages)].id = RandomUUID("model", k)

(* C13: picking a file whose type does not start with "image/" raises the  *)
(* validation alert and leaves the message list, the selected image and    *)
(* its preview as they were, also when an image is already attached.       *)
C13_NonImageRejected ==
    [][\A f \in Files :
          (HandleFileSelect(f) /\ f.type[1] # "image/") =>
              /\ lastEvent' = "alert"
              /\ UNCHANGED <<messages, selectedImage, imagePreview>>]_vars

C13_Witness ==
    /\ lastEvent = "alert"
    /\ selectedImage = PngFile
    /\ imagePreview = [blob |-> PngFile]
    /\ Len(messages) > 1

Chunks == Fragments \cup {<<>>}

(* C14: of the chunks the provider delivers, sendMessageStream yields      *)
(* those with a non-empty text, one by one in the order of arrival, and    *)
(* yields nothing for a chunk without text; the request of a stream is     *)
(* made once and stays the same while the stream runs; when the stream     *)
(* fails the invocation ends with what was yielded so far, and an          *)
(* invocation that has failed or ended yields nothing more and makes no    *)
(* other request.                                                          *)
C14_YieldsNonEmptyChunksInOrder ==
    [][\A i \in SendIds :
          /\ \A c \in Chunks : StreamChunk(i, c) =>
                /\ sends'[i].yielded = IF c = <<>>
                                       THEN sends[i].yielded
                                       ELSE Append(sends[i].yielded, c)
                /\ sends'[i].pc = "streaming"
          /\ (Streaming(i) /\ sends'[i].pc = "streaming") =>
                /\ sends'[i].request = sends[i].request
                /\ sends[i].request # NoRequest
                /\ \/ sends'[i].yielded = sends[i].yielded
                   \/ \E c \in Fragments :
                         sends'[i].yielded = Append(sends[i].yielded, c)
          /\ StreamThrow(i) =>
                /\ sends'[i].pc = "failed"
                /\ sends'[i].request = NoRequest
                /\ sends'[i].yielded = <<>>
          /\ sends[i].pc \in {"failed", "done", "aborted"} =>
                sends'[i] = sends[i]]_vars

C14_Witness ==
    \E i \in SendIds :
        /\ Streaming(i)
        /\ sends[i].yielded = << <<"y">>, <<"x">> >>
        /\ sends[i].request.kind = "text"
        /\ \E j \in Positions(messages, sends[i].modelMessageId) :
              messages[j].text = <<"y", "x">>

\* The payload the request of a submission is to carry, given the text and
\* the image the submission has captured.
ExpectedRequest(text, image) ==
    IF image # NoFile
    THEN [kind |-> "parts", role |-> USER,
          text |-> IF text = <<>> THEN ImagePrompt ELSE text,
          mimeType |-> image.type, data |-> image.data]
    ELSE [kind |-> "text", text |-> text]

(* C15: the request of a submission with an image attached is a multi-part *)
(* payload of the user's text (the prompt "What is in this image?" when    *)
(* the text is empty) and the encoded image with the file's declared type; *)
(* the request of a submission without image is a plain text payload with  *)
(* the user's text.                                                        *)
C15_PayloadFollowsAttachment ==
    [][\A i \in 1..Len(sends') : Opens(i) =>
          LET text == IF i \in SendIds THEN sends[i].currentText
                      ELSE inputValue
              image == IF i \in SendIds THEN sends[i].currentImage
                       ELSE selectedImage
          IN  sends'[i].request = ExpectedRequest(text, image)]_vars

(* C16: except by a clear, the message list only grows at its end: every   *)
(* message keeps its position, id, role and image, a user message never    *)
(* changes at all, and a message whose text or error flag changes is the   *)
(* placeholder of a send whose stream is in flight.                        *)
C16_MessagesOnlyAppended ==
    [][~HandleClearChat =>
          /\ Len(messages') >= Len(messages)
          /\ \A j \in 1..Len(messages) :
                /\ messages'[j].id = messages[j].id
                /\ messages'[j].role = messages[j].role
                /\ messages'[j].image = messages[j].image
                /\ messages[j].role = USER => messages'[j] = messages[j]
                /\ messages'[j] # messages[j] =>
                      \E i \in SendIds :
                          /\ Streaming(i)
                          /\ sends[i].modelMessageId = messages[j].id]_vars

C16_Witness ==
    /\ Len(messages) = 5
    /\ messages[1] = WelcomeMessage
    /\ messages[2].role = USER /\ messages[4].role = USER
    /\ messages[3].text = <<"x">> /\ ~messages[3].isError
    /\ messages[5].isError

(* C17: while a stream that was in flight when the list was cleared is     *)
(* still running, the loading flag is set and a submit of any text, with   *)
(* or without image, is rejected.                                          *)
C17_ClearKeepsLoading ==
    \A i \in SendIds : Stale(i) =>
        /\ isLoading
        /\ \A v \in Inputs : \A f \in Files \cup {NoFile} :
              SubmitRejected(v, f, isLoading)

(* C18: whenever the loading flag is false no stream is in flight.         *)
C18_IdleMeansNoStream ==
    ~isLoading => \A i \in SendIds : ~Streaming(i)

(* C19: there is always one current session handle, the last one created,  *)
(* and it was created for the selected model; the slice that opens a       *)
(* stream opens it on the handle current in that slice, made for the model *)
(* selected then, and leaves the handle in place -- also when the model    *)
(* was switched or the list cleared while the image was being encoded.     *)
C19_StreamOpensOnCurrentHandle ==
    /\ [](/\ chatSessionRef # NoSession
          /\ chatSessionRef.id = nextSession
          /\ chatSessionRef.model = selectedModel)
    /\ [][\A i \in 1..Len(sends') : Opens(i) =>
             /\ sends'[i].chat = chatSessionRef
             /\ sends'[i].chat.model = selectedModel
             /\ UNCHANGED <<chatSessionRef, nextSession, selectedModel>>]_vars

\* Two submissions were accepted with FLASH selected (the second still holds
\* it in its closure), the model was then switched, and the first, whose
\* image was being encoded meanwhile, has opened its stream on the PRO handle.
C19_Witness ==
    \E i, k \in SendIds :
        /\ i < k
        /\ Streaming(i)
        /\ sends[i].request.kind = "parts"
        /\ sends[i].chat = CreateChatSession(PRO, 2)
        /\ sends[k].pc = "encoding"
        /\ sends[k].closureModel = FLASH
        /\ selectedModel = PRO

====
